---- MODULE Spec2Model ----
(***************************************************************************)
(* Model of src/app.py: a Streamlit wizard that appends one row to a CSV   *)
(* file, one column at a time.                                             *)
(*                                                                         *)
(* Strings are sequences of one-character strings, so that strip(),        *)
(* int(), float(), to_csv and read_csv are computed character by           *)
(* character.  A number is a decimal n * 10^(-e), normalised so that       *)
(* e = 0 or n is not a multiple of 10.  The enumerated entries are drawn   *)
(* from the alphabet Chars and a few literal words; signs, exponents,      *)
(* underscores and the inf/nan spellings of Python's float() are outside   *)
(* the enumerated alphabet.  The dtype rules are those of pandas 2.x.       *)
(*                                                                         *)
(* A handler is one action, the rerun it requests included; the only       *)
(* handlers taken in several steps are the two that call save_csv_atomic,  *)
(* whose writes to the temporary file and rename are separate steps (pc).  *)
(***************************************************************************)
EXTENDS Integers, Sequences, FiniteSets, TLC

\* ------------------------------------------------------------------------
\* Bounds
\* ------------------------------------------------------------------------
\* longest enumerated entry of the parse_value specification
MaxLen == 3
\* most rows the in-memory table may hold before Save is no longer offered
MaxRows == 2
\* most values in a column of the infer_input_type specification
MaxCells == 2

\* ------------------------------------------------------------------------
\* Strings
\* ------------------------------------------------------------------------
Chars == {" ", "1", "5", ".", "a"}

DigitChars == {"0", "1", "2", "3", "4", "5", "6", "7", "8", "9"}

DigitVal(c) ==
    CASE c = "0" -> 0 [] c = "1" -> 1 [] c = "2" -> 2 [] c = "3" -> 3
      [] c = "4" -> 4 [] c = "5" -> 5 [] c = "6" -> 6 [] c = "7" -> 7
      [] c = "8" -> 8 [] c = "9" -> 9

DigitChar(d) ==
    CASE d = 0 -> "0" [] d = 1 -> "1" [] d = 2 -> "2" [] d = 3 -> "3"
      [] d = 4 -> "4" [] d = 5 -> "5" [] d = 6 -> "6" [] d = 7 -> "7"
      [] d = 8 -> "8" [] d = 9 -> "9"

RECURSIVE Pow10(_)
Pow10(k) == IF k = 0 THEN 1 ELSE 10 * Pow10(k - 1)

\* all strings over an alphabet, of length at most k
StringsUpTo(alphabet, k) == UNION {[1..m -> alphabet] : m \in 0..k}

W_False == <<"F", "a", "l", "s", "e">>
W_True == <<"T", "r", "u", "e">>
W_abc == <<"a", "b", "c">>
W_hello == <<"h", "e", "l", "l", "o">>
W_NA == <<"N", "A">>
W_NaN == <<"N", "a", "N">>
W_None == <<"N", "o", "n", "e">>

\* str.strip(): drop leading and trailing whitespace
RECURSIVE LStrip(_)
LStrip(s) == IF s # <<>> /\ Head(s) = " " THEN LStrip(Tail(s)) ELSE s

RECURSIVE RStrip(_)
RStrip(s) ==
    IF s # <<>> /\ s[Len(s)] = " " THEN RStrip(SubSeq(s, 1, Len(s) - 1)) ELSE s

Strip(s) == RStrip(LStrip(s))

AllDigits(s) == \A i \in 1..Len(s) : s[i] \in DigitChars

\* value of a digit string, most significant digit first
RECURSIVE DecVal(_)
DecVal(s) ==
    IF s = <<>> THEN 0
    ELSE 10 * DecVal(SubSeq(s, 1, Len(s) - 1)) + DigitVal(s[Len(s)])

\* decimal digits of a natural number
RECURSIVE NatToStr(_)
NatToStr(n) ==
    IF n < 10 THEN <<DigitChar(n)>>
    ELSE NatToStr(n \div 10) \o <<DigitChar(n % 10)>>

\* the digits of n, left-padded with zeros to width w
RECURSIVE ZeroPad(_, _)
ZeroPad(s, w) == IF Len(s) >= w THEN s ELSE ZeroPad(<<"0">> \o s, w)

\* ------------------------------------------------------------------------
\* Values: None/NaN, bool, number, str
\* ------------------------------------------------------------------------
Null == [t |-> "null", n |-> 0, e |-> 0, s |-> <<>>, b |-> FALSE]
Bool(x) == [t |-> "bool", n |-> 0, e |-> 0, s |-> <<>>, b |-> x]
Str(x) == [t |-> "str", n |-> 0, e |-> 0, s |-> x, b |-> FALSE]
\* outcome of a call that raised an exception
Raised == [t |-> "raised", n |-> 0, e |-> 0, s |-> <<>>, b |-> FALSE]

RECURSIVE Num(_, _)
Num(m, k) ==
    IF k > 0 /\ m % 10 = 0 THEN Num(m \div 10, k - 1)
    ELSE [t |-> "num", n |-> m, e |-> k, s |-> <<>>, b |-> FALSE]

\* str(value) of a raw entry (None, bool or str)
PyStr(v) ==
    CASE v.t = "str" -> v.s
      [] v.t = "bool" -> IF v.b THEN W_True ELSE W_False
      [] v.t = "null" -> W_None

\* bool(value)
PyBool(v) ==
    CASE v.t = "str" -> v.s # <<>>
      [] v.t = "bool" -> v.b
      [] v.t = "null" -> FALSE

\* int(s) succeeds: s is a non-empty digit string
IntOK(s) == s # <<>> /\ AllDigits(s)

\* float(s) succeeds: digits with at most one ".", at least one digit
DotCount(s) == Cardinality({i \in 1..Len(s) : s[i] = "."})

FloatOK(s) ==
    /\ \A i \in 1..Len(s) : s[i] \in DigitChars \cup {"."}
    /\ DotCount(s) <= 1
    /\ \E i \in 1..Len(s) : s[i] \in DigitChars

\* the digits of s with the "." removed
RECURSIVE DropDots(_)
DropDots(s) ==
    IF s = <<>> THEN <<>>
    ELSE IF Head(s) = "." THEN DropDots(Tail(s))
    ELSE <<Head(s)>> \o DropDots(Tail(s))

\* number of digits after the "."
FracDigits(s) ==
    IF DotCount(s) = 0 THEN 0
    ELSE Len(s) - (CHOOSE i \in 1..Len(s) : s[i] = ".")

\* int(s): the number, or ValueError
PyInt(s) == IF IntOK(s) THEN Num(DecVal(s), 0) ELSE Raised

\* float(s): the number, or ValueError
PyFloat(s) ==
    IF FloatOK(s) THEN Num(DecVal(DropDots(s)), FracDigits(s)) ELSE Raised

Kinds == {"bool", "int", "float", "text"}

\* the kind == "int" branch with the try/except left out
parse_value_int_uncaught(value) ==
    IF value.t = "null" \/ Strip(PyStr(value)) = <<>> THEN Null
    ELSE PyInt(Strip(PyStr(value)))

\* try: int(...) except Exception: None
parse_value_int(value) ==
    IF value.t = "null" \/ Strip(PyStr(value)) = <<>> THEN Null
    ELSE IF PyInt(Strip(PyStr(value))).t = "raised" THEN Null
    ELSE PyInt(Strip(PyStr(value)))

\* try: float(...) except Exception: None
parse_value_float(value) ==
    IF value.t = "null" \/ Strip(PyStr(value)) = <<>> THEN Null
    ELSE IF PyFloat(Strip(PyStr(value))).t = "raised" THEN Null
    ELSE PyFloat(Strip(PyStr(value)))

parse_value_bool(value) == Bool(PyBool(value))

parse_value(value, kind) ==
    CASE kind = "bool" -> parse_value_bool(value)
      [] kind = "int" -> parse_value_int(value)
      [] kind = "float" -> parse_value_float(value)
      [] OTHER -> IF value.t # "null" THEN value ELSE Str(<<>>)

\* ------------------------------------------------------------------------
\* DataFrame: ordered columns, one dtype per column, rows in insertion order
\* ------------------------------------------------------------------------
EmptyDF == [cols |-> <<>>, dtypes |-> <<>>, rows |-> <<>>]

\* pd.DataFrame(columns=cols): object columns, no rows
HeaderDF(cols) ==
    [cols |-> cols, dtypes |-> [i \in 1..Len(cols) |-> "object"], rows |-> <<>>]

\* pd.to_numeric accepts the element: numbers, bools, "" (read as NaN) and
\* strings that float() accepts once surrounding blanks are skipped
ToNumericOK(v) ==
    CASE v.t = "str" -> v.s = <<>> \/ FloatOK(Strip(v.s))
      [] OTHER -> TRUE

\* the series.empty test made last instead of first
infer_input_type_empty_last(d, i) ==
    IF d.dtypes[i] = "bool" THEN "bool"
    ELSE IF d.dtypes[i] = "int64" THEN "int"
    ELSE IF d.dtypes[i] = "float64" THEN "float"
    ELSE IF \A r \in 1..Len(d.rows) :
              d.rows[r][i].t # "null" => ToNumericOK(d.rows[r][i])
         THEN "float"
    ELSE "text"

infer_input_type(d, i) ==
    IF d.rows = <<>> THEN "text"
    ELSE IF d.dtypes[i] = "bool" THEN "bool"
    ELSE IF d.dtypes[i] = "int64" THEN "int"
    ELSE IF d.dtypes[i] = "float64" THEN "float"
    ELSE IF \A r \in 1..Len(d.rows) :
              d.rows[r][i].t # "null" => ToNumericOK(d.rows[r][i])
         THEN "float"
    ELSE "text"

\* kinds = {c: infer_input_type(df[c]) for c in cols}
KindsOf(d) == [i \in 1..Len(d.cols) |-> infer_input_type(d, i)]

\* dtype of the one-row frame pd.DataFrame([final_row]) for a parsed value;
\* "NA" marks an all-None column
RowDtype(v, kind) ==
    CASE v.t = "bool" -> "bool"
      [] v.t = "str" -> "object"
      [] v.t = "null" -> "NA"
      [] v.t = "num" -> IF kind = "int" THEN "int64" ELSE "float64"

\* dtype of a column after pd.concat (pandas 2.x: columns that are empty or
\* all-NA do not take part in finding the common dtype)
ConcatDtype(old, oldEmpty, new) ==
    IF new = "NA" THEN
        (IF old = "int64" THEN "float64"
         ELSE IF old = "bool" THEN "object"
         ELSE old)
    ELSE IF oldEmpty THEN new
    ELSE IF old = new THEN old
    ELSE IF {old, new} = {"int64", "float64"} THEN "float64"
    ELSE "object"

\* a concat that puts the new row first
Concat_front(d, final_row, kinds) ==
    [cols |-> d.cols,
     dtypes |-> [i \in 1..Len(d.cols) |->
                   ConcatDtype(d.dtypes[i], d.rows = <<>>,
                               RowDtype(final_row[i], kinds[i]))],
     rows |-> <<final_row>> \o d.rows]

\* a concat that extends only the columns that received a value
Concat_skip_null(d, final_row, kinds) ==
    [cols |-> d.cols,
     dtypes |-> [i \in 1..Len(d.cols) |->
                   ConcatDtype(d.dtypes[i], d.rows = <<>>,
                               RowDtype(final_row[i], kinds[i]))],
     rows |-> Append(d.rows, SelectSeq(final_row, LAMBDA v : v.t # "null"))]

\* pd.concat([df, pd.DataFrame([final_row])], ignore_index=True)
Concat(d, final_row, kinds) ==
    [cols |-> d.cols,
     dtypes |-> [i \in 1..Len(d.cols) |->
                   ConcatDtype(d.dtypes[i], d.rows = <<>>,
                               RowDtype(final_row[i], kinds[i]))],
     rows |-> Append(d.rows, final_row)]

\* ------------------------------------------------------------------------
\* CSV text: a file is a sequence of lines, a line a sequence of fields.
\* The alphabet has no comma, quote or newline, so no field needs quoting; a
\* one-column line holding the empty field is written quoted and stays
\* distinct from the blank line <<>>.
\* ------------------------------------------------------------------------
\* repr() of a float
FloatRepr(v) ==
    IF v.e = 0 THEN NatToStr(v.n) \o <<".", "0">>
    ELSE NatToStr(v.n \div Pow10(v.e)) \o <<".">>
         \o ZeroPad(NatToStr(v.n % Pow10(v.e)), v.e)

FormatCell(v, dtype) ==
    CASE v.t = "null" -> <<>>
      [] v.t = "bool" -> IF v.b THEN W_True ELSE W_False
      [] v.t = "str" -> v.s
      [] v.t = "num" -> IF dtype = "int64" THEN NatToStr(v.n) ELSE FloatRepr(v)

\* df.to_csv(path, index=False): header line, then one line per row
to_csv(d) ==
    <<d.cols>> \o
    [r \in 1..Len(d.rows) |->
        [i \in 1..Len(d.cols) |-> FormatCell(d.rows[r][i], d.dtypes[i])]]

\* NA_VALUES together with the parser's default null spellings
NaTokens ==
    {<<>>, W_NA, W_NaN, W_None,
     <<"n", "a", "n">>, <<"n", "u", "l", "l">>, <<"N", "U", "L", "L">>,
     <<"N", "/", "A">>, <<"n", "/", "a">>, <<"#", "N", "/", "A">>,
     <<"#", "N", "A">>, <<"<", "N", "A", ">">>,
     <<"-", "N", "a", "N">>, <<"-", "n", "a", "n">>,
     <<"#", "N", "/", "A", " ", "N", "/", "A">>,
     <<"1", ".", "#", "I", "N", "D">>, <<"-", "1", ".", "#", "I", "N", "D">>,
     <<"1", ".", "#", "Q", "N", "A", "N">>,
     <<"-", "1", ".", "#", "Q", "N", "A", "N">>}

TrueTokens == {W_True, <<"T", "R", "U", "E">>, <<"t", "r", "u", "e">>}

FalseTokens == {W_False, <<"F", "A", "L", "S", "E">>, <<"f", "a", "l", "s", "e">>}

\* field i of a data line; a short line is padded with empty fields
Field(line, i) == IF i <= Len(line) THEN line[i] ELSE <<>>

\* dtype the parser gives a column from its fields
ReadDtype(fs) ==
    IF fs = <<>> THEN "object"
    ELSE IF \A k \in 1..Len(fs) : fs[k] \notin NaTokens /\ IntOK(Strip(fs[k]))
         THEN "int64"
    ELSE IF \A k \in 1..Len(fs) : fs[k] \in NaTokens \/ FloatOK(Strip(fs[k]))
         THEN "float64"
    ELSE IF \A k \in 1..Len(fs) : fs[k] \in TrueTokens \cup FalseTokens
         THEN "bool"
    ELSE "object"

ReadCell(f, fs) ==
    IF f \in NaTokens THEN Null
    ELSE IF ReadDtype(fs) = "int64" THEN PyInt(Strip(f))
    ELSE IF ReadDtype(fs) = "float64" THEN PyFloat(Strip(f))
    ELSE IF \A k \in 1..Len(fs) :
              fs[k] \in NaTokens \cup TrueTokens \cup FalseTokens
         THEN Bool(f \in TrueTokens)
    ELSE Str(f)

\* blank lines are skipped by the parser
RECURSIVE NonBlank(_)
NonBlank(lines) ==
    IF lines = <<>> THEN <<>>
    ELSE IF Head(lines) = <<>> THEN NonBlank(Tail(lines))
    ELSE <<Head(lines)>> \o NonBlank(Tail(lines))

\* pd.read_csv raises: nothing to parse, or a line with too many fields
ReadFails(lines) ==
    \/ NonBlank(lines) = <<>>
    \/ \E k \in 2..Len(NonBlank(lines)) :
          Len(NonBlank(lines)[k]) > Len(NonBlank(lines)[1])

\* pd.read_csv(path, na_values=NA_VALUES, keep_default_na=True)
read_csv(lines) ==
    LET nb == NonBlank(lines)
        data == Tail(nb)
        fields(i) == [r \in 1..Len(data) |-> Field(data[r], i)]
    IN [cols |-> nb[1],
        dtypes |-> [i \in 1..Len(nb[1]) |-> ReadDtype(fields(i))],
        rows |-> [r \in 1..Len(data) |->
                    [i \in 1..Len(nb[1]) |->
                        ReadCell(Field(data[r], i), fields(i))]]]

\* ------------------------------------------------------------------------
\* Files
\* ------------------------------------------------------------------------
Absent == [exists |-> FALSE, lines |-> <<>>]

FileOf(lines) == [exists |-> TRUE, lines |-> lines]

\* load_csv on an existing file: the parsed table, or the empty table when
\* the parser raises
load_existing(f) == IF ReadFails(f.lines) THEN EmptyDF ELSE read_csv(f.lines)

\* ------------------------------------------------------------------------
\* Enumerated inputs
\* ------------------------------------------------------------------------
ColA == <<"A">>
ColB == <<"B">>
ColC == <<"C">>

\* what the user may type into a text_input
WizardEntries == {<<>>, <<"5">>, W_hello}

\* cols_input.split(","): the pieces of the comma-separated header line
\* (the enumerated header lines name each column once)
HeaderInputs ==
    {<<ColA>>, <<<<" ", "A">>, <<>>, <<"B", " ">>>>, <<<<>>, <<" ">>>>}

\* content of the file before the session starts
InitFiles ==
    {Absent,
     FileOf(<<>>),
     FileOf(<<<<ColA>>, <<<<"5">>>>, <<<<"1">>, <<"5">>>>>>),
     FileOf(<<<<ColA, ColB>>, <<<<"5">>, W_hello>>>>),
     FileOf(<<<<ColA, ColB>>, <<W_True, <<"1", ".", "5">>>>>>)}

\* files of three columns, whose middle column the wizard can skip: the
\* middle column is text, boolean, float and integer in turn
WideFiles ==
    {FileOf(<<<<ColA, ColB, ColC>>, <<<<"5">>, W_hello, W_True>>>>),
     FileOf(<<<<ColA, ColB, ColC>>, <<<<"5">>, W_True, <<"1", ".", "5">>>>>>),
     FileOf(<<<<ColA, ColB, ColC>>, <<W_True, <<"1", ".", "5">>, <<"5">>>>>>),
     FileOf(<<<<ColA, ColB, ColC>>, <<W_True, <<"5">>, W_True>>>>)}

\* ------------------------------------------------------------------------
\* State
\* ------------------------------------------------------------------------
VARIABLES
    file,        \* content of csv_path
    tmp,         \* content of csv_path + ".tmp"
    loaded,      \* "df" in st.session_state
    df,          \* st.session_state.df
    wizard_idx,  \* st.session_state.wizard_idx (0-based)
    temp_row,    \* st.session_state.temp_row: column name -> raw entry
    pc,          \* position inside save_csv_atomic, "idle" between handlers
    new_df,      \* the table save_csv_atomic is writing
    ev,          \* the handler that ran last (or is running) and its outcome
    probe        \* argument and result of a single call of a helper

vars == <<file, tmp, loaded, df, wizard_idx, temp_row, pc, new_df, ev, probe>>

NoEv == [op |-> "none", at |-> 0, res |-> "ok"]
NoProbe == [value |-> Null, kind |-> "text", done |-> FALSE, out |-> Null]

Ev(op, at, res) == [op |-> op, at |-> at, res |-> res]

total == Len(df.cols)

\* ------------------------------------------------------------------------
\* One script run of the wizard branch
\* ------------------------------------------------------------------------
Get(tr, c, default) == IF c \in DOMAIN tr THEN tr[c] ELSE default

Put(tr, c, v) == [k \in DOMAIN tr \cup {c} |-> IF k = c THEN v ELSE tr[k]]

EmptyRow == [k \in {} |-> Null]

\* a seeding without the "not in temp_row" test
Seed_always(tr, d, idx) ==
    Put(tr, d.cols[idx + 1],
        IF infer_input_type(d, idx + 1) = "bool" THEN Bool(FALSE)
        ELSE Str(<<>>))

\* "Ensure prior value exists in temp_row"
Seed(tr, d, idx) ==
    IF d.cols[idx + 1] \in DOMAIN tr THEN tr
    ELSE Put(tr, d.cols[idx + 1],
             IF infer_input_type(d, idx + 1) = "bool" THEN Bool(FALSE)
             ELSE Str(<<>>))

\* every widget a text_input
WidgetDefault_text(v, kind) ==
    IF PyBool(v) THEN Str(PyStr(v)) ELSE Str(<<>>)

\* value a widget shows when nothing was typed: bool(x) for the checkbox,
\* str(x or "") for a text_input
WidgetDefault(v, kind) ==
    IF kind = "bool" THEN Bool(PyBool(v))
    ELSE IF PyBool(v) THEN Str(PyStr(v)) ELSE Str(<<>>)

\* values the user can submit with the form for a field of this kind.  A
\* form button can be submitted at any index: after a Save the form of the
\* last field stays on screen while wizard_idx is already 0, so the tests in
\* the button logic, not the disabled flags, decide what a submit does.
FormInputs(kind) ==
    IF kind = "bool" THEN {Bool(TRUE), Bool(FALSE)}
    ELSE {Str(x) : x \in WizardEntries}

\* temp_row after lines 126-155 of a run in which the widget returns val
Shown(tr, d, idx, val) == Put(Seed(tr, d, idx), d.cols[idx + 1], val)

\* temp_row after a run in which the user typed nothing
Quiet(tr, d, idx) ==
    IF Len(d.cols) = 0 THEN tr
    ELSE Shown(tr, d, idx,
               WidgetDefault(Seed(tr, d, idx)[d.cols[idx + 1]],
                             infer_input_type(d, idx + 1)))

CurKind == infer_input_type(df, wizard_idx + 1)

Idle == loaded /\ pc = "idle"

InWizard == Idle /\ total > 0

\* a reset that keeps the entered values
reset_wizard_keep(clear_values, tr) == [idx |-> 0, row |-> tr]

\* reset_wizard: the wizard state it leaves
reset_wizard(clear_values, tr) ==
    [idx |-> 0, row |-> IF clear_values THEN EmptyRow ELSE tr]

Init ==
    /\ file \in InitFiles
    /\ tmp = Absent
    /\ loaded = FALSE
    /\ df = EmptyDF
    /\ wizard_idx = 0
    /\ temp_row = EmptyRow
    /\ pc = "idle"
    /\ new_df = EmptyDF
    /\ ev = NoEv
    /\ probe = NoProbe

\* ------------------------------------------------------------------------
\* First run of a session: load_csv, wizard state, first render
\* ------------------------------------------------------------------------
\* file missing and pd.DataFrame().to_csv(path) succeeds
LoadCreate ==
    /\ ~loaded /\ pc = "idle" /\ ~file.exists
    /\ file' = FileOf(to_csv(EmptyDF))
    /\ loaded' = TRUE
    /\ df' = EmptyDF
    /\ wizard_idx' = 0
    /\ temp_row' = EmptyRow
    /\ ev' = Ev("load", 0, "created")
    /\ UNCHANGED <<tmp, pc, new_df, probe>>

\* file missing and pd.DataFrame().to_csv(path) raises (the directory of
\* csv_path does not exist or is not writable): the run stops at line 74
LoadCreateRaises ==
    /\ ~loaded /\ pc = "idle" /\ ~file.exists
    /\ ev' = Ev("load", 0, "raised")
    /\ UNCHANGED <<file, tmp, loaded, df, wizard_idx, temp_row, pc, new_df, probe>>

\* file exists: parsed, or replaced by the empty table when parsing raises
LoadExisting ==
    /\ ~loaded /\ pc = "idle" /\ file.exists
    /\ loaded' = TRUE
    /\ df' = load_existing(file)
    /\ wizard_idx' = 0
    /\ temp_row' = Quiet(EmptyRow, load_existing(file), 0)
    /\ ev' = Ev("load", 0, IF ReadFails(file.lines) THEN "unparsed" ELSE "parsed")
    /\ UNCHANGED <<file, tmp, pc, new_df, probe>>

\* ------------------------------------------------------------------------
\* save_csv_atomic: df.to_csv(tmp), then os.replace(tmp, path)
\* ------------------------------------------------------------------------
\* to_csv opened the temporary file for writing
TmpOpened(d) ==
    /\ tmp' = FileOf(<<>>)
    /\ new_df' = d
    /\ pc' = "writing"

\* a to_csv that writes the lines straight into csv_path
WriteTmp_in_place ==
    /\ pc = "writing"
    /\ Len(tmp.lines) < Len(to_csv(new_df))
    /\ tmp' = FileOf(Append(tmp.lines, to_csv(new_df)[Len(tmp.lines) + 1]))
    /\ file' = tmp'
    /\ UNCHANGED <<loaded, df, wizard_idx, temp_row, pc, new_df, ev, probe>>

\* to_csv writes the next line of the table to the temporary file
WriteTmp ==
    /\ pc = "writing"
    /\ Len(tmp.lines) < Len(to_csv(new_df))
    /\ tmp' = FileOf(Append(tmp.lines, to_csv(new_df)[Len(tmp.lines) + 1]))
    /\ UNCHANGED <<file, loaded, df, wizard_idx, temp_row, pc, new_df, ev, probe>>

\* os.replace(tmp, path)
Replace ==
    /\ pc = "writing"
    /\ tmp.lines = to_csv(new_df)
    /\ file' = tmp
    /\ tmp' = Absent
    /\ pc' = "replaced"
    /\ UNCHANGED <<loaded, df, wizard_idx, temp_row, new_df, ev, probe>>

\* to_csv or os.replace raises: the exception ends the script run
SaveRaises ==
    /\ pc = "writing"
    /\ pc' = "idle"
    /\ ev' = [ev EXCEPT !.res = "raised"]
    /\ UNCHANGED <<file, tmp, loaded, df, wizard_idx, temp_row, new_df, probe>>

\* ------------------------------------------------------------------------
\* Create headers
\* ------------------------------------------------------------------------
\* [c.strip() for c in cols_input.split(",") if c.strip()]
RECURSIVE StripNames(_)
StripNames(parts) ==
    IF parts = <<>> THEN <<>>
    ELSE IF Strip(Head(parts)) = <<>> THEN StripNames(Tail(parts))
    ELSE <<Strip(Head(parts))>> \o StripNames(Tail(parts))

CreateHeaders ==
    /\ Idle /\ total = 0
    /\ \E input \in HeaderInputs, opened \in BOOLEAN :
         IF StripNames(input) = <<>>
         THEN /\ ev' = Ev("Create", 0, "rejected")
              /\ UNCHANGED <<file, tmp, loaded, df, wizard_idx, temp_row, pc,
                             new_df, probe>>
         ELSE /\ df' = HeaderDF(StripNames(input))
              /\ IF opened
                 THEN /\ TmpOpened(HeaderDF(StripNames(input)))
                      /\ ev' = Ev("Create", 0, "running")
                 ELSE /\ ev' = Ev("Create", 0, "raised")
                      /\ UNCHANGED <<tmp, new_df, pc>>
              /\ UNCHANGED <<file, loaded, wizard_idx, temp_row, probe>>

\* after save_csv_atomic: reset_wizard(clear_values=True), st.rerun()
CreateDone ==
    /\ pc = "replaced" /\ ev.op = "Create"
    /\ wizard_idx' = reset_wizard(TRUE, temp_row).idx
    /\ temp_row' = Quiet(reset_wizard(TRUE, temp_row).row, df, 0)
    /\ pc' = "idle"
    /\ ev' = [ev EXCEPT !.res = "ok"]
    /\ UNCHANGED <<file, tmp, loaded, df, new_df, probe>>

\* ------------------------------------------------------------------------
\* Form buttons
\* ------------------------------------------------------------------------
\* Back without the "idx > 0" test
Back_unguarded ==
    /\ InWizard
    /\ \E val \in FormInputs(CurKind) :
         /\ wizard_idx' = wizard_idx - 1
         /\ temp_row' = Shown(temp_row, df, wizard_idx, val)
         /\ ev' = Ev("Back", wizard_idx, "ok")
    /\ UNCHANGED <<file, tmp, loaded, df, pc, new_df, probe>>

Back ==
    /\ InWizard
    /\ \E val \in FormInputs(CurKind) :
         /\ IF wizard_idx > 0
            THEN /\ wizard_idx' = wizard_idx - 1
                 /\ temp_row' = Quiet(Shown(temp_row, df, wizard_idx, val),
                                      df, wizard_idx - 1)
            ELSE /\ wizard_idx' = wizard_idx
                 /\ temp_row' = Shown(temp_row, df, wizard_idx, val)
         /\ ev' = Ev("Back", wizard_idx, "ok")
    /\ UNCHANGED <<file, tmp, loaded, df, pc, new_df, probe>>

\* Next without the "not last field" test
GoNext_unguarded ==
    /\ InWizard
    /\ \E val \in FormInputs(CurKind) :
         /\ wizard_idx' = wizard_idx + 1
         /\ temp_row' = Shown(temp_row, df, wizard_idx, val)
         /\ ev' = Ev("Next", wizard_idx, "ok")
    /\ UNCHANGED <<file, tmp, loaded, df, pc, new_df, probe>>

\* Next that wraps around to the first field at the last one
GoNext_wraps ==
    /\ InWizard
    /\ \E val \in FormInputs(CurKind) :
         /\ wizard_idx' = (wizard_idx + 1) % total
         /\ temp_row' = Quiet(Shown(temp_row, df, wizard_idx, val),
                              df, (wizard_idx + 1) % total)
         /\ ev' = Ev("Next", wizard_idx, "ok")
    /\ UNCHANGED <<file, tmp, loaded, df, pc, new_df, probe>>

GoNext ==
    /\ InWizard
    /\ \E val \in FormInputs(CurKind) :
         /\ IF wizard_idx < total - 1
            THEN /\ wizard_idx' = wizard_idx + 1
                 /\ temp_row' = Quiet(Shown(temp_row, df, wizard_idx, val),
                                      df, wizard_idx + 1)
            ELSE /\ wizard_idx' = wizard_idx
                 /\ temp_row' = Shown(temp_row, df, wizard_idx, val)
         /\ ev' = Ev("Next", wizard_idx, "ok")
    /\ UNCHANGED <<file, tmp, loaded, df, pc, new_df, probe>>

\* a final row that stores "" as it is for a column without draft entry
FinalRow_raw_missing(tr, d) ==
    [i \in 1..Len(d.cols) |->
        IF d.cols[i] \in DOMAIN tr
        THEN parse_value(tr[d.cols[i]], infer_input_type(d, i))
        ELSE Str(<<>>)]

\* final_row = {c: parse_value(temp_row.get(c, ""), kinds[c]) for c in cols}
FinalRow(tr, d) ==
    [i \in 1..Len(d.cols) |->
        parse_value(Get(tr, d.cols[i], Str(<<>>)), infer_input_type(d, i))]

\* Save Row without the "idx == total - 1" test
SaveRow_any_index ==
    /\ InWizard
    /\ \E val \in FormInputs(CurKind), opened \in BOOLEAN :
         /\ temp_row' = Shown(temp_row, df, wizard_idx, val)
         /\ Len(df.rows) < MaxRows
         /\ IF opened
            THEN /\ TmpOpened(Concat(df,
                        FinalRow(Shown(temp_row, df, wizard_idx, val), df),
                        KindsOf(df)))
                 /\ ev' = Ev("Save", wizard_idx, "running")
            ELSE /\ ev' = Ev("Save", wizard_idx, "raised")
                 /\ UNCHANGED <<tmp, new_df, pc>>
    /\ UNCHANGED <<file, loaded, df, wizard_idx, probe>>

\* a Save that assigns the new table before it is written, as Create headers
\* does
SaveRow_commit_first ==
    /\ InWizard
    /\ \E val \in FormInputs(CurKind), opened \in BOOLEAN :
         /\ temp_row' = Shown(temp_row, df, wizard_idx, val)
         /\ IF wizard_idx = total - 1
            THEN /\ Len(df.rows) < MaxRows
                 /\ df' = Concat(df,
                            FinalRow(Shown(temp_row, df, wizard_idx, val), df),
                            KindsOf(df))
                 /\ IF opened
                    THEN /\ TmpOpened(Concat(df,
                                FinalRow(Shown(temp_row, df, wizard_idx, val), df),
                                KindsOf(df)))
                         /\ ev' = Ev("Save", wizard_idx, "running")
                    ELSE /\ ev' = Ev("Save", wizard_idx, "raised")
                         /\ UNCHANGED <<tmp, new_df, pc>>
            ELSE /\ ev' = Ev("Save", wizard_idx, "ignored")
                 /\ UNCHANGED <<df, tmp, new_df, pc>>
    /\ UNCHANGED <<file, loaded, wizard_idx, probe>>

\* the Save Row button is submitted ...
SaveRow ==
    /\ InWizard
    /\ \E val \in FormInputs(CurKind), opened \in BOOLEAN :
         /\ temp_row' = Shown(temp_row, df, wizard_idx, val)
         /\ IF wizard_idx = total - 1
            THEN /\ Len(df.rows) < MaxRows
                 /\ IF opened
                    THEN /\ TmpOpened(Concat(df,
                                FinalRow(Shown(temp_row, df, wizard_idx, val), df),
                                KindsOf(df)))
                         /\ ev' = Ev("Save", wizard_idx, "running")
                    ELSE /\ ev' = Ev("Save", wizard_idx, "raised")
                         /\ UNCHANGED <<tmp, new_df, pc>>
            ELSE /\ ev' = Ev("Save", wizard_idx, "ignored")
                 /\ UNCHANGED <<tmp, new_df, pc>>
    /\ UNCHANGED <<file, loaded, df, wizard_idx, probe>>

\* ... and after save_csv_atomic: session_state.df = new_df, reset_wizard
SaveDone ==
    /\ pc = "replaced" /\ ev.op = "Save"
    /\ df' = new_df
    /\ wizard_idx' = reset_wizard(TRUE, temp_row).idx
    /\ temp_row' = reset_wizard(TRUE, temp_row).row
    /\ pc' = "idle"
    /\ ev' = [ev EXCEPT !.res = "ok"]
    /\ UNCHANGED <<file, tmp, loaded, new_df, probe>>

\* ------------------------------------------------------------------------
\* Buttons under the form
\* ------------------------------------------------------------------------
\* Reset wizard calling reset_wizard(clear_values=False)
ResetWizard_keeps ==
    /\ InWizard
    /\ wizard_idx' = 0
    /\ temp_row' = Quiet(Quiet(temp_row, df, wizard_idx), df, 0)
    /\ ev' = Ev("Reset", wizard_idx, "ok")
    /\ UNCHANGED <<file, tmp, loaded, df, pc, new_df, probe>>

ResetWizard ==
    /\ InWizard
    /\ wizard_idx' = reset_wizard(TRUE, Quiet(temp_row, df, wizard_idx)).idx
    /\ temp_row' =
         Quiet(reset_wizard(TRUE, Quiet(temp_row, df, wizard_idx)).row, df, 0)
    /\ ev' = Ev("Reset", wizard_idx, "ok")
    /\ UNCHANGED <<file, tmp, loaded, df, pc, new_df, probe>>

\* Jump to first done with reset_wizard()
JumpFirst_clears ==
    /\ InWizard
    /\ wizard_idx' = 0
    /\ temp_row' = Quiet(EmptyRow, df, 0)
    /\ ev' = Ev("First", wizard_idx, "ok")
    /\ UNCHANGED <<file, tmp, loaded, df, pc, new_df, probe>>

JumpFirst ==
    /\ InWizard
    /\ wizard_idx' = 0
    /\ temp_row' = Quiet(Quiet(temp_row, df, wizard_idx), df, 0)
    /\ ev' = Ev("First", wizard_idx, "ok")
    /\ UNCHANGED <<file, tmp, loaded, df, pc, new_df, probe>>

JumpLast ==
    /\ InWizard
    /\ wizard_idx' = total - 1
    /\ temp_row' = Quiet(Quiet(temp_row, df, wizard_idx), df, total - 1)
    /\ ev' = Ev("Last", wizard_idx, "ok")
    /\ UNCHANGED <<file, tmp, loaded, df, pc, new_df, probe>>

Next ==
    \/ LoadCreate
    \/ LoadCreateRaises
    \/ LoadExisting
    \/ CreateHeaders
    \/ CreateDone
    \/ WriteTmp
    \/ Replace
    \/ SaveRaises
    \/ Back
    \/ GoNext
    \/ SaveRow
    \/ SaveDone
    \/ ResetWizard
    \/ JumpFirst
    \/ JumpLast

Spec == Init /\ [][Next]_vars

\* ------------------------------------------------------------------------
\* Sessions that start on an existing file of three columns
\* ------------------------------------------------------------------------
InitWide ==
    /\ file \in WideFiles
    /\ tmp = Absent
    /\ loaded = FALSE
    /\ df = EmptyDF
    /\ wizard_idx = 0
    /\ temp_row = EmptyRow
    /\ pc = "idle"
    /\ new_df = EmptyDF
    /\ ev = NoEv
    /\ probe = NoProbe

NextWide ==
    \/ LoadExisting
    \/ WriteTmp
    \/ Replace
    \/ SaveRaises
    \/ Back
    \/ GoNext
    \/ SaveRow
    \/ SaveDone
    \/ ResetWizard
    \/ JumpFirst
    \/ JumpLast

SpecWide == InitWide /\ [][NextWide]_vars

\* ------------------------------------------------------------------------
\* parse_value on its own: one call on an enumerated argument
\* ------------------------------------------------------------------------
ParseInputs ==
    {Null, Bool(TRUE), Bool(FALSE)}
    \cup {Str(x) : x \in StringsUpTo(Chars, MaxLen)}
    \cup {Str(W_False), Str(W_True), Str(W_abc), Str(W_hello), Str(W_NA)}

InitParse ==
    /\ file = Absent
    /\ tmp = Absent
    /\ loaded = FALSE
    /\ df = EmptyDF
    /\ wizard_idx = 0
    /\ temp_row = EmptyRow
    /\ pc = "idle"
    /\ new_df = EmptyDF
    /\ ev = NoEv
    /\ probe \in {[value |-> v, kind |-> k, done |-> FALSE, out |-> Null] :
                    v \in ParseInputs, k \in Kinds}

ApplyParse ==
    /\ ~probe.done
    /\ probe' = [probe EXCEPT !.done = TRUE,
                              !.out = parse_value(probe.value, probe.kind)]
    /\ UNCHANGED <<file, tmp, loaded, df, wizard_idx, temp_row, pc, new_df, ev>>

NextParse == ApplyParse

SpecParse == InitParse /\ [][NextParse]_vars

\* ------------------------------------------------------------------------
\* infer_input_type on its own: one call on an enumerated one-column table
\* ------------------------------------------------------------------------
\* values a column of each dtype can hold
CellsOf(dtype) ==
    CASE dtype = "bool" -> {Bool(TRUE), Bool(FALSE)}
      [] dtype = "int64" -> {Num(1, 0), Num(5, 0)}
      [] dtype = "float64" -> {Num(5, 0), Num(15, 1), Null}
      [] dtype = "object" ->
           {Str(<<>>), Str(<<"5">>), Str(W_hello), Null, Bool(TRUE), Num(5, 0)}

InferInputs ==
    {[cols |-> <<ColA>>, dtypes |-> <<dt>>,
      rows |-> [r \in 1..m |-> <<c[r]>>]] :
        dt \in {"bool", "int64", "float64", "object"},
        m \in 0..MaxCells, c \in [1..MaxCells -> CellsOf("object")
                                     \cup CellsOf("float64") \cup CellsOf("int64")
                                     \cup CellsOf("bool")]}

\* the enumerated columns whose values fit their dtype
WellTyped(d) == \A r \in 1..Len(d.rows) : d.rows[r][1] \in CellsOf(d.dtypes[1])

InitInfer ==
    /\ file = Absent
    /\ tmp = Absent
    /\ loaded = FALSE
    /\ df \in {d \in InferInputs : WellTyped(d)}
    /\ wizard_idx = 0
    /\ temp_row = EmptyRow
    /\ pc = "idle"
    /\ new_df = EmptyDF
    /\ ev = NoEv
    /\ probe = NoProbe

ApplyInfer ==
    /\ ~probe.done
    /\ probe' = [probe EXCEPT !.done = TRUE, !.kind = infer_input_type(df, 1)]
    /\ UNCHANGED <<file, tmp, loaded, df, wizard_idx, temp_row, pc, new_df, ev>>

NextInfer == ApplyInfer

SpecInfer == InitInfer /\ [][NextInfer]_vars

\* ------------------------------------------------------------------------
\* Properties
\* ------------------------------------------------------------------------
\* same columns and same values
SameTable(a, b) == a.cols = b.cols /\ a.rows = b.rows

\* C1: with N >= 1 columns the wizard index always satisfies 0 <= index < N
C1_IndexInRange ==
    (loaded /\ total >= 1) => (0 <= wizard_idx /\ wizard_idx < total)

\* Next was submitted at the last of two columns and the index stayed there
C1_Witness ==
    /\ total = 2 /\ ev.op = "Next" /\ ev.at = 1 /\ wizard_idx = 1

\* C2: a Save submitted off the last index appends no row, writes no file and
\* does not reset the wizard; the table grows only by a Save at index N-1
C2_SaveOnlyAtLast ==
    [][/\ (InWizard /\ ev'.op = "Save" /\ wizard_idx # total - 1) =>
            /\ df' = df /\ file' = file /\ tmp' = tmp /\ pc' = "idle"
            /\ wizard_idx' = wizard_idx
            /\ temp_row' # EmptyRow
            /\ DOMAIN temp_row \subseteq DOMAIN temp_row'
       /\ (loaded /\ Len(df'.rows) > Len(df.rows)) =>
            /\ ev.op = "Save" /\ ev.at = total - 1
            /\ Len(df'.rows) = Len(df.rows) + 1]_vars

\* Save was submitted again right after a Save that had returned the wizard
\* to the first of two columns
C2_Witness ==
    /\ total = 2 /\ ev.op = "Save" /\ ev.res = "ignored" /\ ev.at = 0
    /\ Len(df.rows) = 2 /\ DOMAIN temp_row = {df.cols[1]} /\ pc = "idle"

\* C3: right after a successful Save the index is 0 and the draft is empty
C3_SaveResets ==
    (ev.op = "Save" /\ ev.res = "ok") => (wizard_idx = 0 /\ temp_row = EmptyRow)

\* a Save of two typed entries has completed on a two-column table
C3_Witness ==
    /\ ev.op = "Save" /\ ev.res = "ok" /\ ev.at = 1 /\ total = 2
    /\ df.rows[Len(df.rows)] = <<Str(<<"5">>), Str(W_hello)>>

\* C4: a successful Save appends exactly one row at the end: columns and
\* earlier rows are unchanged, and the new row holds, for every column, the
\* draft entry parsed by the column's kind
C4_SaveAppends ==
    [][(pc = "replaced" /\ ev.op = "Save" /\ pc' = "idle") =>
          /\ df'.cols = df.cols
          /\ Len(df'.rows) = Len(df.rows) + 1
          /\ SubSeq(df'.rows, 1, Len(df.rows)) = df.rows
          /\ \A i \in 1..Len(df.cols) :
                df'.rows[Len(df'.rows)][i] =
                    parse_value(Get(temp_row, df.cols[i], Str(<<>>)),
                                infer_input_type(df, i))]_vars

\* columns [A, B] of kinds int and text: entries "5" and "hello" were saved
\* as the row (5, "hello") after the row that was there before
C4_Witness ==
    /\ ev.op = "Save" /\ ev.res = "ok"
    /\ df.dtypes = <<"int64", "object">>
    /\ df.rows = <<<<Num(5, 0), Str(W_hello)>>, <<Num(5, 0), Str(W_hello)>>>>

\* C5: during a save every step leaves the target file as it was or puts the
\* complete new table there
C5_TargetNeverPartial ==
    [][(pc # "idle" \/ pc' # "idle") =>
          (file' = file \/ file' = FileOf(to_csv(new_df')))]_vars

\* a Save failed between writing the temporary file and the rename: the
\* temporary file is complete and the target still holds the previous table
C5_Witness ==
    /\ ev.op = "Save" /\ ev.res = "raised" /\ pc = "idle"
    /\ tmp.exists /\ tmp.lines = to_csv(new_df)
    /\ file.exists /\ file.lines = to_csv(df) /\ file.lines # tmp.lines

\* C6: what save_csv_atomic wrote, load_csv reads back with the same columns
\* and the same values
C6_RoundTrip ==
    (pc = "replaced") => SameTable(load_existing(file), new_df)

\* every row of the table has one value for each column
Rectangular(d) == \A r \in 1..Len(d.rows) : Len(d.rows[r]) = Len(d.cols)

\* C7: all columns of the in-memory table have the same length, for the
\* session's table and for the table a Save has built and is writing
C7_EqualLength == Rectangular(df) /\ Rectangular(new_df)

\* headers were created in this session and two rows saved
C7_Witness ==
    /\ ev.op = "Save" /\ ev.res = "ok"
    /\ df.dtypes = <<"object", "object">> /\ Len(df.rows) = 2

\* the entry of the probe as parse_value trims it
ProbeTrimmed == Strip(PyStr(probe.value))

\* C8: for integer and float kinds parse_value returns null for a null or
\* blank entry and for an entry that is not a number of the kind, the parsed
\* number otherwise, and never raises
C8_ParseNumeric ==
    (probe.done /\ probe.kind \in {"int", "float"}) =>
        /\ probe.out.t \in {"null", "num"}
        /\ (probe.value.t = "null" \/ ProbeTrimmed = <<>>) => probe.out = Null
        /\ (probe.kind = "int" /\ ~IntOK(ProbeTrimmed)) => probe.out = Null
        /\ (probe.kind = "float" /\ ~FloatOK(ProbeTrimmed)) => probe.out = Null
        /\ (probe.value.t # "null" /\ probe.kind = "int" /\ IntOK(ProbeTrimmed))
              => probe.out = Num(DecVal(ProbeTrimmed), 0)
        /\ (probe.value.t # "null" /\ probe.kind = "float" /\ FloatOK(ProbeTrimmed))
              => probe.out = Num(DecVal(DropDots(ProbeTrimmed)),
                                 FracDigits(ProbeTrimmed))
        /\ probe.value = Str(W_abc) => probe.out = Null
        /\ probe.value = Str(<<" ", "5", " ">>) => probe.out = Num(5, 0)
        /\ probe.value = Str(<<"1", ".", "5">>) =>
              probe.out = (IF probe.kind = "int" THEN Null ELSE Num(15, 1))

\* "abc" was parsed as an integer
C8_Witness ==
    /\ probe.done /\ probe.kind = "int" /\ probe.value = Str(W_abc)
    /\ probe.out = Null

\* C9: for boolean kind parse_value returns the raw boolean itself, and the
\* entry "False" yields false
C9_ParseBool ==
    (probe.done /\ probe.kind = "bool") =>
        /\ probe.value.t = "bool" => probe.out = probe.value
        /\ probe.value = Str(W_False) => probe.out = Bool(FALSE)

\* C10: load_csv never reports an error: a missing file is created and gives
\* zero columns, an unparsable file gives zero columns and is left as it is,
\* any other file gives the parsed table
C10_LoadNeverFails ==
    [][(~loaded /\ pc = "idle" /\ ev'.op = "load") =>
          /\ ev'.res # "raised"
          /\ loaded'
          /\ ~file.exists => (file'.exists /\ Len(df'.cols) = 0)
          /\ (file.exists /\ ReadFails(file.lines)) =>
                (Len(df'.cols) = 0 /\ file' = file)
          /\ (file.exists /\ ~ReadFails(file.lines)) =>
                (df' = read_csv(file.lines) /\ file' = file)]_vars

\* C11: Back at index > 0 moves to exactly index-1, Back at index 0 leaves
\* the index alone; the table and the file are unchanged either way
C11_Back ==
    [][(InWizard /\ ev'.op = "Back") =>
          /\ wizard_idx' = (IF wizard_idx > 0 THEN wizard_idx - 1 ELSE wizard_idx)
          /\ df' = df /\ file' = file /\ tmp' = tmp]_vars

\* Back was submitted at the first field, on the form left by a Save
C11_Witness ==
    /\ ev.op = "Back" /\ ev.at = 0 /\ wizard_idx = 0 /\ total = 2
    /\ Len(df.rows) = 2

\* C12: Next at index < N-1 moves to exactly index+1; Next at the last index
\* leaves the index alone and saves no row
C12_Next ==
    [][(InWizard /\ ev'.op = "Next") =>
          /\ wizard_idx' =
                (IF wizard_idx < total - 1 THEN wizard_idx + 1 ELSE wizard_idx)
          /\ df' = df /\ file' = file /\ tmp' = tmp /\ pc' = "idle"]_vars

\* Next was submitted at the last of two fields with an entry typed in
C12_Witness ==
    /\ ev.op = "Next" /\ ev.at = 1 /\ wizard_idx = 1 /\ total = 2
    /\ temp_row[df.cols[2]] = Str(W_hello)

\* the column the wizard displays, and its kind
ShownCol == df.cols[wizard_idx + 1]

\* C13: when the wizard comes to display a column whose draft entry is unset
\* the entry becomes false for a boolean column and "" for any other; an
\* entry that is already set is left as it is
C13_Seeding ==
    [][/\ (InWizard /\ wizard_idx' # wizard_idx
              /\ ev'.op \in {"Back", "Next", "First", "Last"}) =>
            /\ ShownCol' \in DOMAIN temp_row'
            /\ ShownCol' \notin DOMAIN temp_row =>
                  temp_row'[ShownCol'] =
                      (IF CurKind' = "bool" THEN Bool(FALSE) ELSE Str(<<>>))
            /\ ShownCol' \in DOMAIN temp_row =>
                  temp_row'[ShownCol'] = temp_row[ShownCol']
       /\ (~loaded /\ loaded' /\ Len(df'.cols) > 0) =>
            temp_row' = Put(EmptyRow, ShownCol',
                            IF CurKind' = "bool" THEN Bool(FALSE) ELSE Str(<<>>))
      ]_vars

\* a ticked boolean field is displayed again after the user went on to the
\* next field and back
C13_Witness ==
    /\ ev.op = "Back" /\ ev.at = 1 /\ wizard_idx = 0 /\ total = 2
    /\ CurKind = "bool"
    /\ temp_row = Put(Put(EmptyRow, df.cols[1], Bool(TRUE)), df.cols[2], Str(<<"5">>))

\* the values of the probed column
ProbeColumn == [r \in 1..Len(df.rows) |-> df.rows[r][1]]

\* C14: infer_input_type takes the first rule that matches: no rows -> text,
\* boolean-typed -> bool, integer-typed -> int, float-typed -> float, else
\* float when every non-null value coerces to a number, else text
C14_InferOrder ==
    probe.done =>
        /\ probe.kind =
             (IF Len(ProbeColumn) = 0 THEN "text"
              ELSE IF df.dtypes[1] = "bool" THEN "bool"
              ELSE IF df.dtypes[1] = "int64" THEN "int"
              ELSE IF df.dtypes[1] = "float64" THEN "float"
              ELSE IF \A r \in 1..Len(ProbeColumn) :
                        \/ ProbeColumn[r].t \in {"null", "num", "bool"}
                        \/ ProbeColumn[r] \in {Str(<<>>), Str(<<"5">>)}
                   THEN "float"
              ELSE "text")
        /\ (df.dtypes[1] = "object" /\ ProbeColumn = <<Str(W_hello)>>)
              => probe.kind = "text"
        /\ (df.dtypes[1] = "object" /\ ProbeColumn = <<Str(<<"5">>), Null>>)
              => probe.kind = "float"

\* a column of strings with one that is not a number was classified as text
C14_Witness ==
    /\ probe.done /\ probe.kind = "text" /\ df.dtypes[1] = "object"
    /\ ProbeColumn = <<Str(<<"5">>), Str(W_hello)>>

\* C15: a column's kind is derived once: the kinds the wizard uses are the
\* same in every state of a session, across all operations and Saves
C15_KindsFixed ==
    [][(loaded /\ loaded' /\ total > 0 /\ df'.cols = df.cols) =>
          KindsOf(df') = KindsOf(df)]_vars

\* C16: Jump to first sets the index to 0 and Jump to last to N-1, from any
\* index; the table, the file and every existing draft entry are unchanged
C16_Jumps ==
    [][(InWizard /\ ev'.op \in {"First", "Last"}) =>
          /\ wizard_idx' = (IF ev'.op = "First" THEN 0 ELSE total - 1)
          /\ df' = df /\ file' = file /\ tmp' = tmp
          /\ \A c \in DOMAIN temp_row :
                c \in DOMAIN temp_row' /\ temp_row'[c] = temp_row[c]]_vars

\* Jump to first from the last of two fields, both entries typed earlier
C16_Witness ==
    /\ ev.op = "First" /\ ev.at = 1 /\ wizard_idx = 0 /\ total = 2
    /\ temp_row = Put(Put(EmptyRow, df.cols[1], Str(<<"5">>)),
                      df.cols[2], Str(W_hello))

LastRow(d) == d.rows[Len(d.rows)]

\* C18: a Save stores, for every column the draft has no entry for, the parse
\* of the empty string: null for an integer or float column, "" for a text
\* column, false for a boolean column; the appended row is a full row
C18_UnvisitedDefaults ==
    (pc # "idle" /\ ev.op = "Save") =>
        /\ Len(new_df.rows) = Len(df.rows) + 1
        /\ Len(LastRow(new_df)) = total
        /\ \A i \in 1..total :
              df.cols[i] \notin DOMAIN temp_row =>
                  LastRow(new_df)[i] =
                      (CASE infer_input_type(df, i) \in {"int", "float"} -> Null
                         [] infer_input_type(df, i) = "bool" -> Bool(FALSE)
                         [] OTHER -> Str(<<>>))

C18_Witness ==
    /\ pc = "replaced" /\ ev.op = "Save"
    /\ DOMAIN temp_row = {ColA, ColC}
    /\ infer_input_type(df, 2) = "bool"
    /\ LastRow(new_df)[2] = Bool(FALSE)
    /\ file.lines = to_csv(new_df)

\* the raw type of every entry of draft tr matches the kind of its column in d
RawTyped(tr, d) ==
    /\ DOMAIN tr \subseteq {d.cols[i] : i \in 1..Len(d.cols)}
    /\ \A i \in 1..Len(d.cols) :
          d.cols[i] \in DOMAIN tr =>
              tr[d.cols[i]].t =
                  (IF infer_input_type(d, i) = "bool" THEN "bool" ELSE "str")

\* C19: every draft entry is a boolean for a boolean column and a string for
\* an integer, float or text column; whenever the kinds of the table change,
\* the draft afterwards holds nothing made under the old kinds (it is empty
\* or holds only the first column's seed under the new kinds), so Save never
\* parses an entry under a kind other than the one it was created under
C19_RawTypes ==
    [][/\ RawTyped(temp_row, df)
       /\ RawTyped(temp_row', df')
       /\ KindsOf(df') # KindsOf(df) =>
             \/ temp_row' = EmptyRow
             \/ temp_row' = Seed(EmptyRow, df', 0)
       /\ (ev'.op = "Save" /\ ev'.res = "running") =>
             /\ df' = df
             /\ (\A i \in 1..total : df.cols[i] \in DOMAIN temp_row') =>
                    LastRow(new_df') =
                        [i \in 1..total |->
                            parse_value(temp_row'[df.cols[i]],
                                        infer_input_type(df, i))]]_vars

\* a Save parsing a boolean entry and a string entry of a two-column draft
C19_Witness ==
    /\ pc = "replaced" /\ ev.op = "Save" /\ total = 2
    /\ DOMAIN temp_row = {df.cols[1], df.cols[2]}
    /\ temp_row[df.cols[1]] = Bool(TRUE)
    /\ temp_row[df.cols[2]] = Str(<<"5">>)
    /\ infer_input_type(df, 2) = "float"
    /\ LastRow(new_df)[1] = Bool(TRUE)
    /\ LastRow(new_df)[2].t = "num"

\* C20: Save writes, then commits: the in-memory table changes and the draft
\* is discarded only in a step that finds the new table already in the file;
\* a Save whose write or replace raises leaves the table, the index and the
\* file as they were and keeps every draft entry; when a Save has completed
\* the file holds the in-memory table
C20_WriteThenCommit ==
    [][/\ (loaded /\ ev'.op = "Save"
              /\ (df' # df \/ (temp_row # EmptyRow /\ temp_row' = EmptyRow))) =>
            /\ pc = "replaced"
            /\ file.lines = to_csv(df')
            /\ file' = file
            /\ wizard_idx' = 0
            /\ temp_row' = EmptyRow
       /\ (ev'.op = "Save" /\ ev'.res = "raised") =>
            /\ df' = df
            /\ wizard_idx' = wizard_idx
            /\ file' = file
            /\ temp_row' # EmptyRow
            /\ DOMAIN temp_row \subseteq DOMAIN temp_row'
       /\ (ev'.op = "Save" /\ ev'.res = "ok") =>
            /\ file'.exists
            /\ file'.lines = to_csv(df')]_vars

\* a Save that raised after writing part of the table to the temporary file
C20_Witness ==
    /\ ev.op = "Save" /\ ev.res = "raised" /\ pc = "idle"
    /\ tmp.exists /\ Len(tmp.lines) > 0
    /\ Len(tmp.lines) < Len(to_csv(new_df))
    /\ total = 2 /\ wizard_idx = 1
    /\ DOMAIN temp_row = {df.cols[1], df.cols[2]}
    /\ Len(new_df.rows) = Len(df.rows) + 1
    /\ file.lines = to_csv(df)

====
